---- MODULE Spec2Model ----
(***************************************************************************)
(* Model of the sandhi splitter of src/src/sandhi.rs.                      *)
(*                                                                         *)
(* A string is a sequence of one-symbol strings.  The reference data is    *)
(* SLP1, one byte per symbol, so a byte offset of the Rust code is an      *)
(* offset into the sequence: input[a..b] is Slice(input, a, b).            *)
(*                                                                         *)
(* Three specifications share the variables:                               *)
(*   Spec        split() run statement by statement on an input and a rule *)
(*               table drawn by Init;                                      *)
(*   FilterSpec  calls of is_good_first, is_good_second, is_good_split;    *)
(*   SegmentSpec the downstream loop split -> is_good_split -> second.     *)
(***************************************************************************)
EXTENDS Integers, Sequences, FiniteSets, TLC

VARIABLES
    \* split: its arguments, its position, its locals
    input, rules, pc, i, j, len_longest_key, res,
    \* beside res: for each pushed pair, the iteration that pushed it
    emitted,
    \* the last call of a filter: its name, arguments and result
    call,
    \* the downstream segmenter: its text, table, position, the texts it split
    seg_text, seg_rules, seg_pc, seg_visited

vars == <<input, rules, pc, i, j, len_longest_key, res, emitted,
          call, seg_text, seg_rules, seg_pc, seg_visited>>

split_vars == <<input, rules, pc, i, j, len_longest_key, res, emitted>>
seg_vars == <<seg_text, seg_rules, seg_pc, seg_visited>>

(***************************************************************************)
(* Bounds of the model.                                                    *)
(***************************************************************************)
\* longest input handed to split
MaxLen == 4
\* longest text handed to is_good_first / is_good_second
MaxFilterLen == 3
\* longest original / first / second handed to is_good_split
MaxWordLen == 2
\* number of texts the segmenter splits in one run
MaxSegSteps == 3

(***************************************************************************)
(* Strings.                                                                *)
(***************************************************************************)
\* all strings of length lo..hi over the symbols of A
StringsBetween(A, lo, hi) == UNION {[1..n -> A] : n \in lo..hi}

\* &s[a..b]: the symbols at offsets a, a+1, .., b-1
Slice(s, a, b) == SubSeq(s, a + 1, b)

Max(S) == CHOOSE x \in S : \A y \in S : y <= x

Min(a, b) == IF a <= b THEN a ELSE b

\* the symbols of the inputs of split
SplitSymbols == {"c", "e", "t", "i"}

Inputs == StringsBetween(SplitSymbols, 0, MaxLen)

(***************************************************************************)
(* The rule table: MultiMap<String, (String, String)>, a map from a key to *)
(* the vector of its values in insertion order.                            *)
(***************************************************************************)
EmptyMap == [k \in {} |-> <<>>]

\* MultiMap::insert(k, v): appends v to the vector of k
insert(m, k, v) ==
    IF k \in DOMAIN m
    THEN [m EXCEPT ![k] = Append(@, v)]
    ELSE [x \in (DOMAIN m) \cup {k} |-> IF x = k THEN <<v>> ELSE m[x]]

\* a rule: key -> (f, s)
Rule(k, f, s) == [key |-> k, val |-> <<f, s>>]

RECURSIVE InsertAll(_, _)
\* the table after inserting the first n rules of a list, in order
InsertAll(list, n) ==
    IF n = 0 THEN EmptyMap
    ELSE insert(InsertAll(list, n - 1), list[n].key, list[n].val)

\* the rule lists the tables are built from
RuleLists ==
    { \* no rule at all
      <<>>,
      \* the table of tests::test_split
      << Rule(<<"e">>, <<"a">>, <<"i">>) >>,
      \* two values under one key, inserted around a longer key
      << Rule(<<"e">>, <<"a">>, <<"i">>),
         Rule(<<"e", "t">>, <<"a", "t">>, <<>>),
         Rule(<<"e">>, <<"a">>, <<"I">>) >>,
      \* the empty key, and a rule that repeats the default split
      << Rule(<<>>, <<>>, <<>>),
         Rule(<<"i">>, <<"i">>, <<"i">>) >>,
      \* a value whose first part is longer than its key
      << Rule(<<"e">>, <<"a", "y", "a">>, <<"i">>) >>,
      \* values whose second part is longer than their key
      << Rule(<<"e">>, <<>>, <<"t", "i">>),
         Rule(<<"i">>, <<>>, <<"t", "e">>),
         Rule(<<"e">>, <<>>, <<"t", "e">>) >> }

RuleTables == {InsertAll(l, Len(l)) : l \in RuleLists}

(***************************************************************************)
(* split, statement by statement.                                          *)
(***************************************************************************)
\* rules.keys().map(|x| x.len()).max()
longest_key(m) == Max({Len(k) : k \in DOMAIN m})

\* the exclusive upper bound of the range of j
window_end(len_input, ii, longest) == Min(len_input, ii + longest + 1)

\* the default split at i: no sandhi
default_split(inp, ii) == <<Slice(inp, 0, ii), Slice(inp, ii, Len(inp))>>

\* rule_splits with the values of a key taken last-inserted first
rule_splits_reversed(inp, m, ii, jj) ==
    LET combination == Slice(inp, ii, jj) IN
    IF combination \in DOMAIN m
    THEN [n \in 1..Len(m[combination]) |->
            LET v == m[combination][Len(m[combination]) + 1 - n] IN
            <<Slice(inp, 0, ii) \o v[1], v[2] \o Slice(inp, jj, Len(inp))>>]
    ELSE <<>>

\* rule_splits with the first part built from the value alone
rule_splits_bare(inp, m, ii, jj) ==
    LET combination == Slice(inp, ii, jj) IN
    IF combination \in DOMAIN m
    THEN [n \in 1..Len(m[combination]) |->
            <<m[combination][n][1],
              m[combination][n][2] \o Slice(inp, jj, Len(inp))>>]
    ELSE <<>>

\* rule_splits with the two parts of the value exchanged
rule_splits_swapped(inp, m, ii, jj) ==
    LET combination == Slice(inp, ii, jj) IN
    IF combination \in DOMAIN m
    THEN [n \in 1..Len(m[combination]) |->
            <<Slice(inp, 0, ii) \o m[combination][n][2],
              m[combination][n][1] \o Slice(inp, jj, Len(inp))>>]
    ELSE <<>>

\* the pairs pushed for one (i, j): one per value of the key input[i..j]
rule_splits(inp, m, ii, jj) ==
    LET combination == Slice(inp, ii, jj) IN
    IF combination \in DOMAIN m
    THEN [n \in 1..Len(m[combination]) |->
            <<Slice(inp, 0, ii) \o m[combination][n][1],
              m[combination][n][2] \o Slice(inp, jj, Len(inp))>>]
    ELSE <<>>

\* what the model records beside each pushed pair: the cut position, the
\* window end (0 for the default split) and the index of the value
default_tag(ii) == [cut |-> ii, end |-> 0, idx |-> 0]
rule_tags(inp, m, ii, jj) ==
    LET combination == Slice(inp, ii, jj) IN
    IF combination \in DOMAIN m
    THEN [n \in 1..Len(m[combination]) |-> [cut |-> ii, end |-> jj, idx |-> n]]
    ELSE <<>>

SplitInit ==
    /\ input \in Inputs
    /\ rules \in RuleTables
    /\ pc = "start"
    /\ i = 0
    /\ j = 0
    /\ len_longest_key = 0
    /\ res = <<>>
    /\ emitted = <<>>

\* Enter with the range of i starting below len_input
Enter_exclusive ==
    /\ pc = "start"
    /\ DOMAIN rules # {}
    /\ len_longest_key' = Max({Len(k) : k \in DOMAIN rules})
    /\ i' = Len(input) - 1
    /\ pc' = "outer"
    /\ UNCHANGED <<input, rules, j, res, emitted>>
    /\ UNCHANGED <<call, seg_vars>>

\* lines 10-12 with a table that has a key
Enter ==
    /\ pc = "start"
    /\ DOMAIN rules # {}
    /\ len_longest_key' = longest_key(rules)
    /\ i' = Len(input)
    /\ pc' = "outer"
    /\ UNCHANGED <<input, rules, j, res, emitted>>
    /\ UNCHANGED <<call, seg_vars>>

\* EnterPanic with a default of 0 in place of the panic
EnterPanic_default ==
    /\ pc = "start"
    /\ DOMAIN rules = {}
    /\ len_longest_key' = 0
    /\ i' = Len(input)
    /\ pc' = "outer"
    /\ UNCHANGED <<input, rules, j, res, emitted>>
    /\ UNCHANGED <<call, seg_vars>>

\* line 11 with an empty table: expect("Map is empty") panics
EnterPanic ==
    /\ pc = "start"
    /\ DOMAIN rules = {}
    /\ pc' = "panic"
    /\ UNCHANGED <<input, rules, i, j, len_longest_key, res, emitted>>
    /\ UNCHANGED <<call, seg_vars>>

\* lines 16-21: the next i of (1..=len_input).rev(), and its default split
PushDefault ==
    /\ pc = "outer"
    /\ i >= 1
    /\ res' = Append(res, default_split(input, i))
    /\ emitted' = Append(emitted, default_tag(i))
    /\ j' = i
    /\ pc' = "inner"
    /\ UNCHANGED <<input, rules, i, len_longest_key>>
    /\ UNCHANGED <<call, seg_vars>>

\* lines 23-35: one j of the window
PushRules ==
    /\ pc = "inner"
    /\ j < window_end(Len(input), i, len_longest_key)
    /\ res' = res \o rule_splits(input, rules, i, j)
    /\ emitted' = emitted \o rule_tags(input, rules, i, j)
    /\ j' = j + 1
    /\ UNCHANGED <<input, rules, pc, i, len_longest_key>>
    /\ UNCHANGED <<call, seg_vars>>

\* line 36: the window is exhausted
NextCut ==
    /\ pc = "inner"
    /\ j >= window_end(Len(input), i, len_longest_key)
    /\ i' = i - 1
    /\ pc' = "outer"
    /\ UNCHANGED <<input, rules, j, len_longest_key, res, emitted>>
    /\ UNCHANGED <<call, seg_vars>>

\* line 38: the range of i is exhausted
Return ==
    /\ pc = "outer"
    /\ i < 1
    /\ pc' = "done"
    /\ UNCHANGED <<input, rules, i, j, len_longest_key, res, emitted>>
    /\ UNCHANGED <<call, seg_vars>>

Next ==
    \/ Enter
    \/ EnterPanic
    \/ PushDefault
    \/ PushRules
    \/ NextCut
    \/ Return

(***************************************************************************)
(* split as a function of its arguments: the same loops, run to the end.   *)
(***************************************************************************)
RECURSIVE inner_loop(_, _, _, _, _)
\* lines 23-36 from window position jj on
inner_loop(inp, m, ii, jj, longest) ==
    IF jj >= window_end(Len(inp), ii, longest) THEN <<>>
    ELSE rule_splits(inp, m, ii, jj) \o inner_loop(inp, m, ii, jj + 1, longest)

RECURSIVE outer_loop(_, _, _, _)
\* lines 16-37 from cut position ii down to 1
outer_loop(inp, m, ii, longest) ==
    IF ii < 1 THEN <<>>
    ELSE <<default_split(inp, ii)>> \o inner_loop(inp, m, ii, ii, longest)
            \o outer_loop(inp, m, ii - 1, longest)

\* split(input, rules): the vector returned, or a panic
split(inp, m) ==
    IF DOMAIN m = {}
    THEN [panic |-> TRUE, res |-> <<>>]
    ELSE [panic |-> FALSE, res |-> outer_loop(inp, m, Len(inp), longest_key(m))]

(***************************************************************************)
(* The heuristic filters.                                                  *)
(***************************************************************************)
\* the literal of line 45
GoodFinals ==
    << "a", "A", "i", "I", "u", "U", "f", "F", "x", "X", "e", "E", "o", "O",
       "H", "k", "N", "w", "R", "t", "p", "n", "m", "s", "r" >>

\* str::contains(char)
contains(str, c) == \E n \in 1..Len(str) : str[n] = c

\* is_good_first looking at the first symbol
is_good_first_head(text) ==
    IF Len(text) = 0 THEN TRUE
    ELSE contains(GoodFinals, text[1])

\* is_good_first: text.chars().last() is None, or is in the literal
is_good_first(text) ==
    IF Len(text) = 0 THEN TRUE
    ELSE contains(GoodFinals, text[Len(text)])

\* the two character classes of the pattern of line 53
Class_yrlv == {"y", "r", "l", "v"}
Class_sparsha ==
    { "k", "K", "g", "G", "N", "c", "C", "j", "J", "Y", "w", "W", "q", "Q",
      "R", "t", "T", "d", "D", "n", "p", "P", "b", "B", "m" }

\* is_match without the anchor: the pattern anywhere in the text
is_match_unanchored(text) ==
    \E n \in 1..(Len(text) - 1) :
        text[n] \in Class_yrlv /\ text[n + 1] \in Class_sparsha

\* Regex::is_match for ^[yrlv][kKgG...]: anchored at the start of the text
is_match(text) ==
    /\ Len(text) >= 2
    /\ text[1] \in Class_yrlv
    /\ text[2] \in Class_sparsha

\* is_good_second
is_good_second(text) == ~is_match(text)

\* is_good_split without the recursion guard
is_good_split_no_guard(text, first, second) ==
    is_good_first(first) /\ is_good_second(second)

\* is_good_split with the guard on the first part
is_good_split_guard_first(text, first, second) ==
    LET is_recursive == (text = first) IN
    is_good_first(first) /\ is_good_second(second) /\ ~is_recursive

\* is_good_split(text, first, second)
is_good_split(text, first, second) ==
    LET is_recursive == (text = second) IN
    is_good_first(first) /\ is_good_second(second) /\ ~is_recursive

NoCall == [fn |-> "none", args |-> <<>>, ret |-> FALSE]

SplitIdle ==
    /\ input = <<>>
    /\ rules = EmptyMap
    /\ pc = "idle"
    /\ i = 0
    /\ j = 0
    /\ len_longest_key = 0
    /\ res = <<>>
    /\ emitted = <<>>

SegIdle ==
    /\ seg_text = <<>>
    /\ seg_rules = EmptyMap
    /\ seg_pc = "idle"
    /\ seg_visited = <<>>

Init ==
    /\ SplitInit
    /\ call = NoCall
    /\ SegIdle

Spec == Init /\ [][Next]_vars

(***************************************************************************)
(* Calls of the filters.                                                   *)
(***************************************************************************)
\* the SLP1 symbols: vowels, anusvara and visarga, the stops and nasals,
\* the semivowels, the sibilants, h and L
Symbols ==
    { "a", "A", "i", "I", "u", "U", "f", "F", "x", "X", "e", "E", "o", "O",
      "M", "H",
      "k", "K", "g", "G", "N", "c", "C", "j", "J", "Y", "w", "W", "q", "Q",
      "R", "t", "T", "d", "D", "n", "p", "P", "b", "B", "m",
      "y", "r", "l", "v", "S", "z", "s", "h", "L" }

\* a good final, a bad final, a semivowel, a stop
ProbeSymbols == {"a", "c", "y", "t"}

\* texts for is_good_first: every symbol in the last place
FirstTexts ==
    {<<>>} \cup
    {p \o <<c>> : p \in StringsBetween(ProbeSymbols, 0, MaxFilterLen - 1),
                  c \in Symbols}

\* texts for is_good_second: every symbol in the first two places
SecondTexts ==
    StringsBetween(Symbols, 0, 2) \cup
    {h \o t : h \in StringsBetween(Symbols, 2, 2),
              t \in StringsBetween(ProbeSymbols, 1, MaxFilterLen - 2)}

\* the arguments of is_good_split
Words == StringsBetween(ProbeSymbols, 0, MaxWordLen)

CallIsGoodFirst ==
    /\ call = NoCall
    /\ \E text \in FirstTexts :
         call' = [fn |-> "is_good_first", args |-> <<text>>,
                  ret |-> is_good_first(text)]
    /\ UNCHANGED <<split_vars, seg_vars>>

CallIsGoodSecond ==
    /\ call = NoCall
    /\ \E text \in SecondTexts :
         call' = [fn |-> "is_good_second", args |-> <<text>>,
                  ret |-> is_good_second(text)]
    /\ UNCHANGED <<split_vars, seg_vars>>

CallIsGoodSplit ==
    /\ call = NoCall
    /\ \E text \in Words, first \in Words, second \in Words :
         call' = [fn |-> "is_good_split", args |-> <<text, first, second>>,
                  ret |-> is_good_split(text, first, second)]
    /\ UNCHANGED <<split_vars, seg_vars>>

FilterInit ==
    /\ SplitIdle
    /\ call = NoCall
    /\ SegIdle

FilterNext ==
    \/ CallIsGoodFirst
    \/ CallIsGoodSecond
    \/ CallIsGoodSplit

FilterSpec == FilterInit /\ [][FilterNext]_vars

(***************************************************************************)
(* The downstream segmenter: split the text, keep a candidate that         *)
(* is_good_split accepts, go on with its second part.                      *)
(***************************************************************************)
\* the candidates of split(text) that is_good_split accepts
accepted(text, m) ==
    LET cands == split(text, m).res IN
    {n \in 1..Len(cands) : is_good_split(text, cands[n][1], cands[n][2])}

SegInit ==
    /\ SplitIdle
    /\ call = NoCall
    /\ seg_text \in Inputs
    /\ seg_rules \in RuleTables \ {EmptyMap}
    /\ seg_pc = "run"
    /\ seg_visited = <<>>

SegStep ==
    /\ seg_pc = "run"
    /\ Len(seg_visited) < MaxSegSteps
    /\ \E n \in accepted(seg_text, seg_rules) :
         seg_text' = split(seg_text, seg_rules).res[n][2]
    /\ seg_visited' = Append(seg_visited, seg_text)
    /\ UNCHANGED <<split_vars, call, seg_rules, seg_pc>>

SegStop ==
    /\ seg_pc = "run"
    /\ accepted(seg_text, seg_rules) = {}
    /\ seg_pc' = "done"
    /\ UNCHANGED <<split_vars, call, seg_text, seg_rules, seg_visited>>

SegNext ==
    \/ SegStep
    \/ SegStop

SegmentSpec == SegInit /\ [][SegNext]_vars

(***************************************************************************)
(* Properties of split (Spec).                                             *)
(***************************************************************************)
\* the pair a tag stands for, written from the input and the table
PairOfTag(e) ==
    IF e.end = 0
    THEN <<SubSeq(input, 1, e.cut), SubSeq(input, e.cut + 1, Len(input))>>
    ELSE LET k == SubSeq(input, e.cut + 1, e.end) IN
         <<SubSeq(input, 1, e.cut) \o rules[k][e.idx][1],
           rules[k][e.idx][2] \o SubSeq(input, e.end + 1, Len(input))>>

\* a tag names an iteration of the loops that pushes a pair
TagIsReal(e) ==
    /\ e.cut \in 1..Len(input)
    /\ e.end # 0 =>
         /\ e.end \in e.cut..Len(input)
         /\ SubSeq(input, e.cut + 1, e.end) \in DOMAIN rules
         /\ e.idx \in 1..Len(rules[SubSeq(input, e.cut + 1, e.end)])

\* tag a comes strictly before tag b: larger cut first; in one cut the
\* default (end 0) first, then smaller end first, then smaller index first
Before(a, b) ==
    \/ a.cut > b.cut
    \/ a.cut = b.cut /\ a.end < b.end
    \/ a.cut = b.cut /\ a.end = b.end /\ a.idx < b.idx

TestTable == InsertAll(<<Rule(<<"e">>, <<"a">>, <<"i">>)>>, 1)

\* C1: the pairs of res are grouped by descending cut position i; in the
\* group of one i the default pair comes first, then the rule-derived pairs
\* by ascending window end j and, for one key, in the insertion order of its
\* values; and split("ceti") under the single rule e -> (a, i) is exactly
\* [(ceti,""), (cet,i), (ce,ti), (c,eti), (ca,iti)].
C1_Ordering ==
    /\ Len(emitted) = Len(res)
    /\ \A n \in 1..Len(res) :
         /\ TagIsReal(emitted[n])
         /\ res[n] = PairOfTag(emitted[n])
         /\ n > 1 => Before(emitted[n - 1], emitted[n])
         /\ emitted[n].end # 0 => (n > 1 /\ emitted[n - 1].cut = emitted[n].cut)
    /\ (pc = "done" /\ Len(input) > 0) =>
         (emitted[1].cut = Len(input) /\ emitted[Len(emitted)].cut = 1)
    /\ (pc = "done" /\ input = <<"c", "e", "t", "i">> /\ rules = TestTable) =>
         res = << <<<<"c", "e", "t", "i">>, <<>>>>,
                  <<<<"c", "e", "t">>, <<"i">>>>,
                  <<<<"c", "e">>, <<"t", "i">>>>,
                  <<<<"c">>, <<"e", "t", "i">>>>,
                  <<<<"c", "a">>, <<"i", "t", "i">>>> >>

\* a finished run with one group holding the default pair, two values of
\* one key and then a pair of a longer window
C1_Witness ==
    /\ pc = "done"
    /\ \E n \in 1..(Len(emitted) - 3) :
         /\ emitted[n].end = 0
         /\ emitted[n + 1].end # 0 /\ emitted[n + 1].idx = 1
         /\ emitted[n + 2].end = emitted[n + 1].end /\ emitted[n + 2].idx = 2
         /\ emitted[n + 3].end > emitted[n + 2].end
         /\ emitted[n + 3].cut = emitted[n].cut
         /\ res[n + 1] # res[n + 2]

\* C2: when split returns, for every i in 1..L the pair
\* (input[0..i], input[i..L]) is in the result; for i = L it is (input, "").
C2_DefaultIncluded ==
    pc = "done" =>
        /\ \A c \in 1..Len(input) :
             \E n \in 1..Len(res) :
                res[n] = <<SubSeq(input, 1, c), SubSeq(input, c + 1, Len(input))>>
        /\ Len(input) > 0 => \E n \in 1..Len(res) : res[n] = <<input, <<>>>>

\* a finished run on an input of three symbols or more that also pushed a
\* rule-derived pair
C2_Witness ==
    /\ pc = "done"
    /\ Len(input) >= 3
    /\ Len(res) > Len(input)

\* C3: when split returns, for every key k and all 1 <= i <= j <= L with
\* input[i..j] = k, every value (suffix, prefix) of k has its pair
\* (input[0..i] + suffix, prefix + input[j..L]) in the result, the values of
\* one match in insertion order.
C3_RuleMatchComplete ==
    pc = "done" =>
        \A c \in 1..Len(input) : \A e \in c..Len(input) :
            LET k == SubSeq(input, c + 1, e) IN
            k \in DOMAIN rules =>
                \E base \in 0..Len(res) :
                    \A x \in 1..Len(rules[k]) :
                        /\ base + x <= Len(res)
                        /\ res[base + x] =
                             <<SubSeq(input, 1, c) \o rules[k][x][1],
                               rules[k][x][2] \o SubSeq(input, e + 1, Len(input))>>

\* C4: with an empty rule table split never gets past its first statement:
\* it panics, whatever the input, and returns nothing.
C4_EmptyTablePanics ==
    DOMAIN rules = {} =>
        /\ pc \in {"start", "panic"}
        /\ res = <<>>
        /\ split(input, rules).panic

\* the panic on the empty input
C4_Witness ==
    /\ pc = "panic"
    /\ input = <<>>
    /\ DOMAIN rules = {}

C9_Sound ==
    /\ \A n \in 1..Len(res) :
         \/ \E c \in 1..Len(input) :
               res[n] = <<SubSeq(input, 1, c), SubSeq(input, c + 1, Len(input))>>
         \/ \E c \in 1..Len(input) :
               \E e \in c..Min(Len(input), c + Max({Len(k) : k \in DOMAIN rules})) :
                  LET k == SubSeq(input, c + 1, e) IN
                  /\ k \in DOMAIN rules
                  /\ \E x \in 1..Len(rules[k]) :
                        res[n] = <<SubSeq(input, 1, c) \o rules[k][x][1],
                                   rules[k][x][2] \o SubSeq(input, e + 1, Len(input))>>
    /\ (pc = "done" /\ input = <<>>) => res = <<>>

\* a finished run that pushed a pair which is no default pair
C9_Witness ==
    /\ pc = "done"
    /\ \E n \in 1..Len(res) :
         \A c \in 1..Len(input) :
            res[n] # <<SubSeq(input, 1, c), SubSeq(input, c + 1, Len(input))>>

\* the statement-by-statement run and the function agree
RunIsSplit ==
    /\ pc = "done" => (res = split(input, rules).res /\ ~split(input, rules).panic)
    /\ pc = "panic" => split(input, rules).panic

(***************************************************************************)
(* Properties of the filters (FilterSpec).                                 *)
(***************************************************************************)
\* C5: is_good_split(original, first, second) is true iff
\* is_good_first(first), is_good_second(second) and second # original; so it
\* is false whenever second = original.
C5_GoodSplit ==
    call.fn = "is_good_split" =>
        /\ call.ret = ( /\ is_good_first(call.args[2])
                        /\ is_good_second(call.args[3])
                        /\ call.args[3] # call.args[1] )
        /\ call.args[3] = call.args[1] => call.ret = FALSE

\* second = original with a good first and a good second: rejected
C5_Witness ==
    /\ call.fn = "is_good_split"
    /\ call.args[3] = call.args[1]
    /\ call.args[1] # <<>>
    /\ is_good_first(call.args[2])
    /\ is_good_second(call.args[3])
    /\ call.ret = FALSE

\* C6: is_good_first is true for the empty string, true when the last symbol
\* is one of a A i I u U f F x X e E o O H k N w R t p n m s r, and false
\* for every other last symbol, whatever precedes it.
C6_GoodFirst ==
    call.fn = "is_good_first" =>
        LET text == call.args[1] IN
        call.ret =
            ( \/ text = <<>>
              \/ text[Len(text)] \in
                   {"a", "A", "i", "I", "u", "U", "f", "F", "x", "X", "e", "E",
                    "o", "O", "H", "k", "N", "w", "R", "t", "p", "n", "m", "s",
                    "r"} )

\* a text that starts with a good final and ends in M: rejected
C6_Witness ==
    /\ call.fn = "is_good_first"
    /\ Len(call.args[1]) = 3
    /\ call.args[1][1] = "a"
    /\ call.args[1][3] = "M"
    /\ call.ret = FALSE

\* C7: is_good_second is false iff the first symbol is one of y r l v and
\* the second one of k K g G N c C j J Y w W q Q R t T d D n p P b B m; it
\* is true for every other text, the empty one and the one-symbol ones too.
C7_GoodSecond ==
    call.fn = "is_good_second" =>
        LET text == call.args[1] IN
        call.ret =
            ~( /\ Len(text) >= 2
               /\ text[1] \in {"y", "r", "l", "v"}
               /\ text[2] \in
                    {"k", "K", "g", "G", "N", "c", "C", "j", "J", "Y", "w", "W",
                     "q", "Q", "R", "t", "T", "d", "D", "n", "p", "P", "b", "B",
                     "m"} )

\* a text that starts like rmakzetre: rejected
C7_Witness ==
    /\ call.fn = "is_good_second"
    /\ call.args[1] = <<"r", "m", "a">>
    /\ call.ret = FALSE

(***************************************************************************)
(* Properties of the segmenter (SegmentSpec).                              *)
(***************************************************************************)
\* the text the segmenter went on with after the n-th text it split
After(n) == IF n = Len(seg_visited) THEN seg_text ELSE seg_visited[n + 1]

\* no value of the table has a second part longer than its key
ShortPrefixes(m) ==
    \A k \in DOMAIN m : \A x \in 1..Len(m[k]) : Len(m[k][x][2]) <= Len(k)

\* C10 as stated, the part a finite run refutes: the segmenter never
\* returns to a text it has already split.
C10_NeverRevisits ==
    \A n \in 1..Len(seg_visited) : seg_text # seg_visited[n]

\* C10 as amended: the text the segmenter goes on with is never the text it
\* has just split; and if no value of the table has a second part longer
\* than its key, it is strictly shorter, so that the loop ends.
C10_GuardProgress ==
    \A n \in 1..Len(seg_visited) :
        /\ After(n) # seg_visited[n]
        /\ ShortPrefixes(seg_rules) => Len(After(n)) < Len(seg_visited[n])

\* the segmenter went on from a text one of whose candidates, with a good
\* first part and a good second part, repeats that text
C10_Witness ==
    /\ Len(seg_visited) >= 1
    /\ LET t == seg_visited[1]
           cands == split(t, seg_rules).res IN
       \E n \in 1..Len(cands) :
          /\ cands[n][2] = t
          /\ is_good_first(cands[n][1])
          /\ is_good_second(cands[n][2])

====
